---- MODULE Spec2Model ----
(***************************************************************************)
(* Model of RouletteWheel<E, W> (src/RouletteWheel.hpp) and of             *)
(* WheelRegion<E, W> (src/classes/WheelRegion.hpp) for an integral weight  *)
(* type W and an element type E with equality.                             *)
(*                                                                         *)
(* Indices are 1-based here (0-based in the source); the empty optional    *)
(* of findElementIndex is the index 0.  A value that may be absent (a      *)
(* std::optional, a void return, a draw that was skipped) is a sequence of *)
(* length 0 or 1.                                                          *)
(***************************************************************************)
EXTENDS Integers, Sequences, FiniteSets, TLC

\* ---------------------------------------------------------------- bounds
\* number of distinct element values the callers use
NumElements == 3
\* largest weight / weight delta a caller passes (the smallest is -MaxWeight)
MaxWeight == 2
\* callers keep the sum of the stored weights at or below this value
MaxTotal == 4
\* largest seed passed to seedRandom
MaxSeed == 1
\* longest list or mapping handed to a constructor
MaxPairs == 2

Elements == 1..NumElements
WeightInputs == (0 - MaxWeight)..MaxWeight
Seeds == 0..MaxSeed

\* number of states of the abstract random engine; at least MaxTotal so
\* that every value of a draw range [0, T-1] can come out of the engine
EngineStates == MaxTotal + 1

\* ------------------------------------------------------- weight type W
\* W is a signed integer type of WBits bits (int in the tests, narrowed)
WBits == 6
MaxCalls == 3

WMin == 0 - 2^(WBits - 1)

WMax == 2^(WBits - 1) - 1

\* a mathematical result brought back into the range of W
WWrap(x) == ((x - WMin) % 2^WBits) + WMin

\* operator+ of W
WAdd(a, b) == WWrap(a + b)

\* ----------------------------------------------------------------- double
\* A double is a binary floating-point number with FBits significant bits
\* (53 in the build, narrowed): [m, e] stands for m * 2^e, with
\* 2^(FBits-1) <= |m| < 2^FBits, or m = 0 and e = 0.  Every operation rounds
\* its exact result to the nearest such number, ties to even.
FBits == 11

\* the nearest double to (n / d) * 2^e, for n > 0 and d > 0
RECURSIVE DoubleRound(_, _, _)
DoubleRound(n, d, e) ==
    IF n >= d * 2^FBits THEN DoubleRound(n, 2 * d, e + 1)
    ELSE IF n < d * 2^(FBits - 1) THEN DoubleRound(2 * n, d, e - 1)
    ELSE LET q == n \div d
             r == n % d
             m == IF 2 * r > d \/ (2 * r = d /\ q % 2 = 1) THEN q + 1 ELSE q
         IN IF m = 2^FBits THEN [m |-> 2^(FBits - 1), e |-> e + 1]
            ELSE [m |-> m, e |-> e]

\* the nearest double to (n / d) * 2^e, for d # 0
DoubleOf(n, d, e) ==
    IF n = 0 THEN [m |-> 0, e |-> 0]
    ELSE IF (n < 0) # (d < 0)
    THEN LET magnitude == DoubleRound(IF n < 0 THEN 0 - n ELSE n,
                                      IF d < 0 THEN 0 - d ELSE d, e)
         IN [m |-> 0 - magnitude.m, e |-> magnitude.e]
    ELSE DoubleRound(IF n < 0 THEN 0 - n ELSE n, IF d < 0 THEN 0 - d ELSE d, e)

\* static_cast<double>(w) and the literals 0.0, 100.0
DoubleFromW(w) == DoubleOf(w, 1, 0)

\* operator/ and operator* of double
DoubleDiv(a, b) == DoubleOf(a.m, b.m, a.e - b.e)

DoubleMul(a, b) == DoubleOf(a.m * b.m, 1, a.e + b.e)

\* ------------------------------------------------------------ WheelRegion
WheelRegion(element, weight) == [m_element |-> element, m_weight |-> weight]

getElement(region) == region.m_element

getWeight(region) == region.m_weight

setWeight(region, weight) == [region EXCEPT !.m_weight = weight]

\* ------------------------------------------------- sequence helpers (std)
\* std::vector::erase(begin() + index), index 1-based
\* the last region moved into the place of the erased one
Erase_SwapsLast(regions, index) ==
    [k \in 1..(Len(regions) - 1) |->
        IF k = index THEN regions[Len(regions)] ELSE regions[k]]

Erase(regions, index) ==
    [k \in 1..(Len(regions) - 1) |->
        IF k < index THEN regions[k] ELSE regions[k + 1]]

\* ------------------------------------------------ private helper methods
RECURSIVE calculateTotalWeightFrom(_, _, _)
calculateTotalWeightFrom(regions, k, totalWeight) ==
    IF k > Len(regions) THEN totalWeight
    ELSE calculateTotalWeightFrom(regions, k + 1,
                                  WAdd(totalWeight, getWeight(regions[k])))

\* the last region left out of the total
calculateTotalWeight_SkipsLast(regions) ==
    calculateTotalWeightFrom(SubSeq(regions, 1, Len(regions) - 1), 1, 0)

calculateTotalWeight(regions) == calculateTotalWeightFrom(regions, 1, 0)

RECURSIVE findElementIndexFrom(_, _, _)
findElementIndexFrom(regions, element, i) ==
    IF i > Len(regions) THEN 0
    ELSE IF getElement(regions[i]) = element THEN i
    ELSE findElementIndexFrom(regions, element, i + 1)

\* the scan starting at the second region
findElementIndex_SkipsFirst(regions, element) ==
    findElementIndexFrom(regions, element, 2)

findElementIndex(regions, element) == findElementIndexFrom(regions, element, 1)

\* the walk returning the position of the region instead of its element
RECURSIVE selectElementByWeight_IndexFrom(_, _, _, _)
selectElementByWeight_IndexFrom(regions, randomValue, k, accumulatedWeight) ==
    IF k > Len(regions) THEN Len(regions) - 1
    ELSE IF WAdd(accumulatedWeight, getWeight(regions[k])) > randomValue
         THEN k - 1
    ELSE selectElementByWeight_IndexFrom(regions, randomValue, k + 1,
                                   WAdd(accumulatedWeight, getWeight(regions[k])))

selectElementByWeight_ReturnsIndex(regions, randomValue) ==
    selectElementByWeight_IndexFrom(regions, randomValue, 1, 0)

\* the walk stopping at accumulatedWeight >= randomValue
RECURSIVE selectElementByWeight_InclusiveFrom(_, _, _, _)
selectElementByWeight_InclusiveFrom(regions, randomValue, k, accumulatedWeight) ==
    IF k > Len(regions) THEN getElement(regions[Len(regions)])
    ELSE IF WAdd(accumulatedWeight, getWeight(regions[k])) >= randomValue
         THEN getElement(regions[k])
    ELSE selectElementByWeight_InclusiveFrom(regions, randomValue, k + 1,
                                   WAdd(accumulatedWeight, getWeight(regions[k])))

selectElementByWeight_Inclusive(regions, randomValue) ==
    selectElementByWeight_InclusiveFrom(regions, randomValue, 1, 0)

RECURSIVE selectElementByWeightFrom(_, _, _, _)
selectElementByWeightFrom(regions, randomValue, k, accumulatedWeight) ==
    IF k > Len(regions) THEN getElement(regions[Len(regions)])
    ELSE IF WAdd(accumulatedWeight, getWeight(regions[k])) > randomValue
         THEN getElement(regions[k])
    ELSE selectElementByWeightFrom(regions, randomValue, k + 1,
                                   WAdd(accumulatedWeight, getWeight(regions[k])))

\* the running sum started at 1
selectElementByWeight_StartsAtOne(regions, randomValue) ==
    selectElementByWeightFrom(regions, randomValue, 1, 1)

\* the stopping test made before the weight of the region is added
RECURSIVE selectElementByWeight_EarlyTestFrom(_, _, _, _)
selectElementByWeight_EarlyTestFrom(regions, randomValue, k, accumulatedWeight) ==
    IF k > Len(regions) THEN getElement(regions[Len(regions)])
    ELSE IF accumulatedWeight > randomValue
         THEN getElement(regions[k])
    ELSE selectElementByWeight_EarlyTestFrom(regions, randomValue, k + 1,
                                   WAdd(accumulatedWeight, getWeight(regions[k])))

selectElementByWeight_EarlyTest(regions, randomValue) ==
    selectElementByWeight_EarlyTestFrom(regions, randomValue, 1, 0)

selectElementByWeight(regions, randomValue) ==
    selectElementByWeightFrom(regions, randomValue, 1, 0)

\* which return of selectElementByWeight() is taken: the position of the
\* region at which the loop returns, 0 for the return after the loop
RECURSIVE selectElementByWeightExitFrom(_, _, _, _)
selectElementByWeightExitFrom(regions, randomValue, k, accumulatedWeight) ==
    IF k > Len(regions) THEN 0
    ELSE IF WAdd(accumulatedWeight, getWeight(regions[k])) > randomValue
         THEN k
    ELSE selectElementByWeightExitFrom(regions, randomValue, k + 1,
                                   WAdd(accumulatedWeight, getWeight(regions[k])))

selectElementByWeightExit(regions, randomValue) ==
    selectElementByWeightExitFrom(regions, randomValue, 1, 0)

\* the weight replaced instead of accumulated
combineWeightAtIndex_Overwrites(regions, index, additionalWeight) ==
    [regions EXCEPT ![index] = setWeight(regions[index], additionalWeight)]

combineWeightAtIndex(regions, index, additionalWeight) ==
    [regions EXCEPT ![index] =
        setWeight(regions[index],
                  WAdd(getWeight(regions[index]), additionalWeight))]

\* pruning only below zero: a weight of exactly 0 is kept
modifyElementWeight_KeepsZero(regions, element, weightDelta) ==
    LET index == findElementIndex(regions, element) IN
    IF index = 0 THEN regions
    ELSE LET newWeight == WAdd(getWeight(regions[index]), weightDelta) IN
         IF newWeight < 0 THEN Erase(regions, index)
         ELSE [regions EXCEPT ![index] = setWeight(regions[index], newWeight)]

\* the delta stored as the new weight instead of being added
modifyElementWeight_Overwrites(regions, element, weightDelta) ==
    LET index == findElementIndex(regions, element) IN
    IF index = 0 THEN regions
    ELSE LET newWeight == weightDelta IN
         IF newWeight <= 0 THEN Erase(regions, index)
         ELSE [regions EXCEPT ![index] = setWeight(regions[index], newWeight)]

\* the end of modifyElementWeight(): the region erased when the new weight
\* is not positive, given the new weight otherwise
storeNewWeight(regions, index, newWeight) ==
    IF newWeight <= 0 THEN Erase(regions, index)
    ELSE [regions EXCEPT ![index] = setWeight(regions[index], newWeight)]

\* the first region updated instead of the one found
modifyElementWeight_UpdatesFirst(regions, element, weightDelta) ==
    LET index == findElementIndex(regions, element) IN
    IF index = 0 THEN regions
    ELSE LET newWeight == WAdd(getWeight(regions[1]), weightDelta) IN
         IF newWeight <= 0 THEN Erase(regions, 1)
         ELSE [regions EXCEPT ![1] = setWeight(regions[1], newWeight)]

\* the delta added twice
modifyElementWeight_AddsTwice(regions, element, weightDelta) ==
    LET index == findElementIndex(regions, element) IN
    IF index = 0 THEN regions
    ELSE LET newWeight == WAdd(WAdd(getWeight(regions[index]), weightDelta),
                               weightDelta) IN
         IF newWeight <= 0 THEN Erase(regions, index)
         ELSE [regions EXCEPT ![index] = setWeight(regions[index], newWeight)]

\* pruning already at a new weight of 1
modifyElementWeight_PrunesAtOne(regions, element, weightDelta) ==
    LET index == findElementIndex(regions, element) IN
    IF index = 0 THEN regions
    ELSE LET newWeight == WAdd(getWeight(regions[index]), weightDelta) IN
         IF newWeight <= 1 THEN Erase(regions, index)
         ELSE [regions EXCEPT ![index] = setWeight(regions[index], newWeight)]

modifyElementWeight(regions, element, weightDelta) ==
    LET index == findElementIndex(regions, element) IN
    IF index = 0 THEN regions
    ELSE LET newWeight == WAdd(getWeight(regions[index]), weightDelta) IN
         IF newWeight <= 0 THEN Erase(regions, index)
         ELSE [regions EXCEPT ![index] = setWeight(regions[index], newWeight)]

findElementWeight(regions, element) ==
    LET index == findElementIndex(regions, element) IN
    IF index = 0 THEN <<>> ELSE <<getWeight(regions[index])>>

\* ---------------------------------------------------------- random source
\* std::mt19937 is abstracted to a deterministic generator over
\* EngineStates states: seeding fixes the state, every output advances it
\* (a permutation of the states, so that every state has a predecessor).
EngineSeed(seed) == seed % EngineStates

\* the seed added to the state the engine is in
seedRandom_KeepsState(engine, seed) == (engine + EngineSeed(seed)) % EngineStates

\* m_randomEngine.seed(seed): the state the engine was in is discarded
seedRandom(engine, seed) == EngineSeed(seed)

EngineAdvance(engine) == (engine + 1) % EngineStates

\* std::uniform_int_distribution<W>(0, maxWeight - 1)(engine): one engine
\* output mapped into the closed range [0, maxWeight - 1].  A range with
\* maxWeight - 1 < 0 breaks the precondition of the distribution (undefined
\* behaviour): the value is then undefinedDraw, any value of W.
\* the distribution built over [0, maxWeight]
generateRandomWeight_UpToMax(engine, maxWeight, undefinedDraw) ==
    [value |-> IF maxWeight >= 1 THEN EngineAdvance(engine) % (maxWeight + 1)
               ELSE undefinedDraw,
     engine |-> EngineAdvance(engine)]

generateRandomWeight(engine, maxWeight, undefinedDraw) ==
    [value |-> IF maxWeight >= 1 THEN EngineAdvance(engine) % maxWeight
               ELSE undefinedDraw,
     engine |-> EngineAdvance(engine)]

\* ------------------------------------------------- public pure operations
NoError == "none"

EmptyWheel == "std::runtime_error: Cannot select from an empty RouletteWheel"

InvalidWeight == "std::invalid_argument: Weight must be positive"

empty(regions) == Len(regions) = 0

size(regions) == Len(regions)

\* select() without the empty check, returning a default element
select_NoEmptyCheck(regions, engine, undefinedDraw) ==
    IF empty(regions)
    THEN [err |-> NoError, ret |-> <<0>>, engine |-> engine, draw |-> <<>>]
    ELSE IF size(regions) = 1
    THEN [err |-> NoError, ret |-> <<getElement(regions[1])>>,
          engine |-> engine, draw |-> <<>>]
    ELSE LET totalWeight == calculateTotalWeight(regions)
             random == generateRandomWeight(engine, totalWeight, undefinedDraw)
         IN [err |-> NoError,
             ret |-> <<selectElementByWeight(regions, random.value)>>,
             engine |-> random.engine, draw |-> <<random.value>>]

\* the single-region return made after a draw
select_ShortcutDraws(regions, engine, undefinedDraw) ==
    IF empty(regions)
    THEN [err |-> EmptyWheel, ret |-> <<>>, engine |-> engine, draw |-> <<>>]
    ELSE LET totalWeight == calculateTotalWeight(regions)
             random == generateRandomWeight(engine, totalWeight, undefinedDraw)
         IN IF size(regions) = 1
            THEN [err |-> NoError, ret |-> <<getElement(regions[1])>>,
                  engine |-> random.engine, draw |-> <<>>]
            ELSE [err |-> NoError,
                  ret |-> <<selectElementByWeight(regions, random.value)>>,
                  engine |-> random.engine, draw |-> <<random.value>>]

\* select(): the outcome, the engine after the call and the value drawn
select(regions, engine, undefinedDraw) ==
    IF empty(regions)
    THEN [err |-> EmptyWheel, ret |-> <<>>, engine |-> engine, draw |-> <<>>]
    ELSE IF size(regions) = 1
    THEN [err |-> NoError, ret |-> <<getElement(regions[1])>>,
          engine |-> engine, draw |-> <<>>]
    ELSE LET totalWeight == calculateTotalWeight(regions)
             random == generateRandomWeight(engine, totalWeight, undefinedDraw)
         IN [err |-> NoError,
             ret |-> <<selectElementByWeight(regions, random.value)>>,
             engine |-> random.engine, draw |-> <<random.value>>]

\* selectSafe() forwarding to select() without its own empty check
selectSafe_NoEmptyCheck(regions, engine, undefinedDraw) ==
    select(regions, engine, undefinedDraw)

selectSafe(regions, engine, undefinedDraw) ==
    IF empty(regions)
    THEN [err |-> NoError, ret |-> <<>>, engine |-> engine, draw |-> <<>>]
    ELSE select(regions, engine, undefinedDraw)

\* select() as it is without the return for a single region: the empty
\* check, then always the draw and the walk
selectByDrawAndWalk(regions, engine, undefinedDraw) ==
    IF empty(regions)
    THEN [err |-> EmptyWheel, ret |-> <<>>, engine |-> engine, draw |-> <<>>]
    ELSE LET totalWeight == calculateTotalWeight(regions)
             random == generateRandomWeight(engine, totalWeight, undefinedDraw)
         IN [err |-> NoError,
             ret |-> <<selectElementByWeight(regions, random.value)>>,
             engine |-> random.engine, draw |-> <<random.value>>]

\* the values std::uniform_int_distribution<W>(0, maxWeight - 1) can return
DrawRange(maxWeight) == 0..(maxWeight - 1)

\* select() with the value of the draw given.  The engine of a wheel that
\* was never seeded by the caller starts from std::random_device, so its
\* outputs are not determined by the program: the draw is then any value of
\* the range of the distribution.
selectDrawing(regions, engine, randomValue) ==
    IF empty(regions)
    THEN [err |-> EmptyWheel, ret |-> <<>>, engine |-> engine, draw |-> <<>>]
    ELSE IF size(regions) = 1
    THEN [err |-> NoError, ret |-> <<getElement(regions[1])>>,
          engine |-> engine, draw |-> <<>>]
    ELSE [err |-> NoError,
          ret |-> <<selectElementByWeight(regions, randomValue)>>,
          engine |-> EngineAdvance(engine), draw |-> <<randomValue>>]

\* the validation rejecting negative weights only
addRegion_AllowsZero(regions, element, weight) ==
    IF weight < 0 THEN [err |-> InvalidWeight, regions |-> regions]
    ELSE LET existingIndex == findElementIndex(regions, element) IN
         IF existingIndex # 0
         THEN [err |-> NoError,
               regions |-> combineWeightAtIndex(regions, existingIndex, weight)]
         ELSE [err |-> NoError,
               regions |-> Append(regions, WheelRegion(element, weight))]

addRegion(regions, element, weight) ==
    IF weight <= 0 THEN [err |-> InvalidWeight, regions |-> regions]
    ELSE LET existingIndex == findElementIndex(regions, element) IN
         IF existingIndex # 0
         THEN [err |-> NoError,
               regions |-> combineWeightAtIndex(regions, existingIndex, weight)]
         ELSE [err |-> NoError,
               regions |-> Append(regions, WheelRegion(element, weight))]

\* the last region erased instead of the one found
removeElement_ErasesLast(regions, element) ==
    LET index == findElementIndex(regions, element) IN
    IF index = 0 THEN [ret |-> FALSE, regions |-> regions]
    ELSE [ret |-> TRUE, regions |-> Erase(regions, Len(regions))]

\* everything from the region found to the end erased
removeElement_ErasesToEnd(regions, element) ==
    LET index == findElementIndex(regions, element) IN
    IF index = 0 THEN [ret |-> FALSE, regions |-> regions]
    ELSE [ret |-> TRUE, regions |-> SubSeq(regions, 1, index - 1)]

removeElement(regions, element) ==
    LET index == findElementIndex(regions, element) IN
    IF index = 0 THEN [ret |-> FALSE, regions |-> regions]
    ELSE [ret |-> TRUE, regions |-> Erase(regions, index)]

\* the fraction returned instead of the percentage
getSelectionProbability_Fraction(regions, element) ==
    IF empty(regions) THEN DoubleFromW(0)
    ELSE LET elementWeight == findElementWeight(regions, element) IN
         IF elementWeight = <<>> THEN DoubleFromW(0)
         ELSE LET totalWeight == calculateTotalWeight(regions) IN
              IF totalWeight <= 0 THEN DoubleFromW(0)
              ELSE DoubleDiv(DoubleFromW(elementWeight[1]),
                             DoubleFromW(totalWeight))

getSelectionProbability(regions, element) ==
    IF empty(regions) THEN DoubleFromW(0)
    ELSE LET elementWeight == findElementWeight(regions, element) IN
         IF elementWeight = <<>> THEN DoubleFromW(0)
         ELSE LET totalWeight == calculateTotalWeight(regions) IN
              IF totalWeight <= 0 THEN DoubleFromW(0)
              ELSE DoubleMul(DoubleDiv(DoubleFromW(elementWeight[1]),
                                       DoubleFromW(totalWeight)),
                             DoubleFromW(100))

getRegions(regions) == regions

\* only negative weights taken for invalid
IsValidRegion_KeepsZero(region) == ~(getWeight(region) < 0)

IsValidRegion(region) == ~(getWeight(region) <= 0)

removeInvalidRegions(regions) ==
    LET kept == SelectSeq(regions, IsValidRegion) IN
    [ret |-> size(regions) - size(kept), regions |-> kept]

\* the constructors: addRegion for every pair in iteration order; the first
\* addRegion that throws ends the construction
RECURSIVE RouletteWheelFrom(_, _, _)
RouletteWheelFrom(elementWeightPairs, k, regions) ==
    IF k > Len(elementWeightPairs) THEN [err |-> NoError, regions |-> regions]
    ELSE LET added == addRegion(regions, elementWeightPairs[k][1],
                                elementWeightPairs[k][2])
         IN IF added.err # NoError THEN [err |-> added.err, regions |-> <<>>]
            ELSE RouletteWheelFrom(elementWeightPairs, k + 1, added.regions)

\* the pairs taken from the last to the first
RouletteWheelOfVector_Reversed(elementWeightPairs) ==
    RouletteWheelFrom([k \in 1..Len(elementWeightPairs) |->
                          elementWeightPairs[Len(elementWeightPairs) + 1 - k]],
                      1, <<>>)

RouletteWheelOfVector(elementWeightPairs) ==
    RouletteWheelFrom(elementWeightPairs, 1, <<>>)

\* entries without a positive weight left out instead of rejected
RouletteWheelOfMap_SkipsInvalid(elementWeightMap, iterationOrder) ==
    LET IsPositive(element) == elementWeightMap[element] > 0
        kept == SelectSeq(iterationOrder, IsPositive)
    IN RouletteWheelFrom([k \in 1..Len(kept) |->
                             <<kept[k], elementWeightMap[kept[k]]>>],
                         1, <<>>)

\* an unordered_map is iterated in an unspecified order: iterationOrder is
\* any arrangement of its keys
RouletteWheelOfMap(elementWeightMap, iterationOrder) ==
    RouletteWheelFrom([k \in 1..Len(iterationOrder) |->
                          <<iterationOrder[k], elementWeightMap[iterationOrder[k]]>>],
                      1, <<>>)

\* ------------------------------------------------------------------ state
VARIABLES
    m_regions,       \* std::vector<WheelRegion<E, W>>
    m_randomEngine,  \* state of the std::mt19937
    last,            \* the last completed call: name, arguments, outcome
    run,             \* the current run of consecutive selectAndRemove calls
    twin             \* a second wheel, where two wheels are compared

vars == <<m_regions, m_randomEngine, last, run, twin>>

Call(op, args, ret, err, draw) ==
    [op |-> op, args |-> args, ret |-> ret, err |-> err, draw |-> draw]

NewRun(regions) == [start |-> regions, drawn |-> <<>>]

\* the mathematical sum of the stored weights
RECURSIVE SumOfWeights(_)
SumOfWeights(regions) ==
    IF regions = <<>> THEN 0
    ELSE getWeight(Head(regions)) + SumOfWeights(Tail(regions))

\* callers keep the total weight at or below MaxTotal: a call that adds
\* weight is made only when the sum stays within it
WithinTotal(regions, addedWeight) ==
    addedWeight > 0 => SumOfWeights(regions) + addedWeight <= MaxTotal

RECURSIVE PairsWithinTotal(_, _)
PairsWithinTotal(elementWeightPairs, total) ==
    IF elementWeightPairs = <<>> THEN total <= MaxTotal
    ELSE /\ Head(elementWeightPairs)[2] > 0 =>
                total + Head(elementWeightPairs)[2] <= MaxTotal
         /\ PairsWithinTotal(Tail(elementWeightPairs),
                             IF Head(elementWeightPairs)[2] > 0
                             THEN total + Head(elementWeightPairs)[2]
                             ELSE total)

PairLists ==
    UNION {[1..n -> Elements \X WeightInputs] : n \in 0..MaxPairs}

WeightMaps ==
    UNION {[keys -> WeightInputs] :
              keys \in {ks \in SUBSET Elements : Cardinality(ks) <= MaxPairs}}

IterationOrders(keys) ==
    {order \in [1..Cardinality(keys) -> keys] :
        \A i, j \in 1..Cardinality(keys) : order[i] = order[j] => i = j}

Constructed(wheel, how) ==
    /\ wheel.err = NoError
    /\ m_regions = wheel.regions
    /\ last = Call(how, <<>>, <<>>, NoError, <<>>)
    /\ run = NewRun(wheel.regions)

\* where no second wheel exists
NoTwin == [m_regions |-> <<>>, m_randomEngine |-> 0, seeds |-> <<>>,
           calls |-> 0, ret |-> <<>>]

InitWheel ==
    /\ \E seed \in 0..(EngineStates - 1) : m_randomEngine = EngineSeed(seed)
    /\ \/ Constructed([err |-> NoError, regions |-> <<>>], "RouletteWheel()")
       \/ \E pairs \in PairLists :
             /\ PairsWithinTotal(pairs, 0)
             /\ Constructed(RouletteWheelOfVector(pairs), "RouletteWheel(vector)")
       \/ \E map \in WeightMaps : \E order \in IterationOrders(DOMAIN map) :
             /\ PairsWithinTotal([k \in 1..Len(order) |-> <<order[k], map[order[k]]>>], 0)
             /\ Constructed(RouletteWheelOfMap(map, order), "RouletteWheel(map)")

Init == InitWheel /\ twin = NoTwin

\* two empty wheels with the same seed, the second without the
\* single-region return in its select()
InitShortcut ==
    /\ \E seed \in Seeds :
          /\ m_randomEngine = EngineSeed(seed)
          /\ twin = [m_regions |-> <<>>, m_randomEngine |-> EngineSeed(seed),
                     seeds |-> <<seed, seed>>, calls |-> 0, ret |-> <<>>]
    /\ Constructed([err |-> NoError, regions |-> <<>>], "RouletteWheel()")

\* two wheels constructed from the same input, each engine seeded from its
\* own std::random_device()
InitTwin ==
    /\ InitWheel
    /\ \E seed \in 0..(EngineStates - 1) :
          twin = [m_regions |-> m_regions, m_randomEngine |-> EngineSeed(seed),
                  seeds |-> <<>>, calls |-> 0, ret |-> <<>>]

\* before any constructor has run
NotConstructed == "none"

\* the arguments a constructor is about to be called with
ConstructorInputs ==
    {<<"RouletteWheel()">>}
    \cup {<<"RouletteWheel(vector)", pairs>> :
             pairs \in {ps \in PairLists : PairsWithinTotal(ps, 0)}}
    \cup UNION {{<<"RouletteWheel(map)", map, order>> :
                   order \in {o \in IterationOrders(DOMAIN map) :
                                 PairsWithinTotal([k \in 1..Len(o) |->
                                                     <<o[k], map[o[k]]>>], 0)}} :
                map \in WeightMaps}

InitInput ==
    /\ m_regions = <<>>
    /\ m_randomEngine = 0
    /\ \E input \in ConstructorInputs :
          last = Call(NotConstructed, input, <<>>, NoError, <<>>)
    /\ run = NewRun(<<>>)
    /\ twin = NoTwin

\* serialize() with an input archive replaces m_regions by the archived
\* regions, whatever their weights; the random engine is not archived
LoadedWeights == (0 - 1)..MaxWeight

LoadedRegions ==
    {regions \in UNION {[1..n -> [m_element : Elements, m_weight : LoadedWeights]] :
                            n \in 0..NumElements} :
        \A i, j \in 1..Len(regions) :
            getElement(regions[i]) = getElement(regions[j]) => i = j}

InitLoaded ==
    /\ m_randomEngine = EngineSeed(0)
    /\ \E regions \in LoadedRegions :
          /\ m_regions = regions
          /\ last = Call("serialize", <<regions>>, <<>>, NoError, <<>>)
          /\ run = NewRun(regions)
          /\ twin = NoTwin

\* archived regions of weight 0 and 1, in a wheel whose engine is in any
\* state
InitOrder ==
    /\ \E seed \in 0..(EngineStates - 1) : m_randomEngine = EngineSeed(seed)
    /\ \E regions \in {loaded \in LoadedRegions :
                          \A k \in 1..Len(loaded) : getWeight(loaded[k]) \in 0..1} :
          /\ m_regions = regions
          /\ last = Call("serialize", <<regions>>, <<>>, NoError, <<>>)
          /\ run = NewRun(regions)
          /\ twin = NoTwin

\* the values an ill-formed draw range can yield in select(): any value of
\* W when the total weight is below 1, immaterial otherwise
UndefinedDraws(regions) ==
    IF size(regions) >= 2 /\ calculateTotalWeight(regions) < 1
    THEN WMin..WMax ELSE {0}

\* ---------------------------------------------------------------- actions
Select ==
    \E undefinedDraw \in UndefinedDraws(m_regions) :
    LET selected == select(m_regions, m_randomEngine, undefinedDraw) IN
    /\ m_randomEngine' = selected.engine
    /\ last' = Call("select", <<>>, selected.ret, selected.err, selected.draw)
    /\ run' = NewRun(m_regions)
    /\ UNCHANGED m_regions
    /\ UNCHANGED twin

SelectSafe ==
    \E undefinedDraw \in UndefinedDraws(m_regions) :
    LET selected == selectSafe(m_regions, m_randomEngine, undefinedDraw) IN
    /\ m_randomEngine' = selected.engine
    /\ last' = Call("selectSafe", <<>>, selected.ret, selected.err, selected.draw)
    /\ run' = NewRun(m_regions)
    /\ UNCHANGED m_regions
    /\ UNCHANGED twin

SelectAndModifyWeight(weightDelta) ==
    \E undefinedDraw \in UndefinedDraws(m_regions) :
    LET selected == select(m_regions, m_randomEngine, undefinedDraw)
        regions == IF selected.err # NoError THEN m_regions
                   ELSE modifyElementWeight(m_regions, selected.ret[1], weightDelta)
    IN
    /\ WithinTotal(m_regions, weightDelta)
    /\ m_regions' = regions
    /\ m_randomEngine' = selected.engine
    /\ last' = Call("selectAndModifyWeight", <<weightDelta>>, selected.ret,
                    selected.err, selected.draw)
    /\ run' = NewRun(regions)
    /\ UNCHANGED twin

SelectAndRemove ==
    \E undefinedDraw \in UndefinedDraws(m_regions) :
    LET selected == select(m_regions, m_randomEngine, undefinedDraw)
        regions == IF selected.err # NoError THEN m_regions
                   ELSE removeElement(m_regions, selected.ret[1]).regions
    IN
    /\ m_regions' = regions
    /\ m_randomEngine' = selected.engine
    /\ last' = Call("selectAndRemove", <<>>, selected.ret, selected.err,
                    selected.draw)
    /\ run' = IF selected.err # NoError THEN run
              ELSE [run EXCEPT !.drawn = Append(@, selected.ret[1])]
    /\ UNCHANGED twin

\* addRegion() taking an output from the engine
AddRegion_AdvancesEngine(element, weight) ==
    LET added == addRegion(m_regions, element, weight) IN
    /\ WithinTotal(m_regions, weight)
    /\ m_regions' = added.regions
    /\ last' = Call("addRegion", <<element, weight>>, <<>>, added.err, <<>>)
    /\ run' = NewRun(added.regions)
    /\ m_randomEngine' = EngineAdvance(m_randomEngine)
    /\ UNCHANGED twin

AddRegion(element, weight) ==
    LET added == addRegion(m_regions, element, weight) IN
    /\ WithinTotal(m_regions, weight)
    /\ m_regions' = added.regions
    /\ last' = Call("addRegion", <<element, weight>>, <<>>, added.err, <<>>)
    /\ run' = NewRun(added.regions)
    /\ UNCHANGED m_randomEngine
    /\ UNCHANGED twin

RemoveElement(element) ==
    LET removed == removeElement(m_regions, element) IN
    /\ m_regions' = removed.regions
    /\ last' = Call("removeElement", <<element>>, <<removed.ret>>, NoError, <<>>)
    /\ run' = NewRun(removed.regions)
    /\ UNCHANGED m_randomEngine
    /\ UNCHANGED twin

RemoveInvalidRegions ==
    LET removed == removeInvalidRegions(m_regions) IN
    /\ m_regions' = removed.regions
    /\ last' = Call("removeInvalidRegions", <<>>, <<removed.ret>>, NoError, <<>>)
    /\ run' = NewRun(removed.regions)
    /\ UNCHANGED m_randomEngine
    /\ UNCHANGED twin

SeedRandom(seed) ==
    /\ m_randomEngine' = seedRandom(m_randomEngine, seed)
    /\ last' = Call("seedRandom", <<seed>>, <<>>, NoError, <<>>)
    /\ run' = NewRun(m_regions)
    /\ UNCHANGED m_regions
    /\ UNCHANGED twin

\* the read-only queries
Empty ==
    /\ last' = Call("empty", <<>>, <<empty(m_regions)>>, NoError, <<>>)
    /\ run' = NewRun(m_regions)
    /\ UNCHANGED <<m_regions, m_randomEngine>>
    /\ UNCHANGED twin

Size ==
    /\ last' = Call("size", <<>>, <<size(m_regions)>>, NoError, <<>>)
    /\ run' = NewRun(m_regions)
    /\ UNCHANGED <<m_regions, m_randomEngine>>
    /\ UNCHANGED twin

\* the query drawing from the random engine
GetSelectionProbability_Draws(element) ==
    /\ last' = Call("getSelectionProbability", <<element>>,
                    <<getSelectionProbability(m_regions, element)>>, NoError, <<>>)
    /\ run' = NewRun(m_regions)
    /\ m_randomEngine' = EngineAdvance(m_randomEngine)
    /\ UNCHANGED m_regions
    /\ UNCHANGED twin

GetSelectionProbability(element) ==
    /\ last' = Call("getSelectionProbability", <<element>>,
                    <<getSelectionProbability(m_regions, element)>>, NoError, <<>>)
    /\ run' = NewRun(m_regions)
    /\ UNCHANGED <<m_regions, m_randomEngine>>
    /\ UNCHANGED twin

GetRegions ==
    /\ last' = Call("getRegions", <<>>, <<getRegions(m_regions)>>, NoError, <<>>)
    /\ run' = NewRun(m_regions)
    /\ UNCHANGED <<m_regions, m_randomEngine>>
    /\ UNCHANGED twin

\* a constructor applied to its arguments; a constructor that throws leaves
\* no wheel behind
Construct(wheel, how) ==
    /\ last.op = NotConstructed
    /\ last.args[1] = how
    /\ m_regions' = wheel.regions
    /\ \E seed \in 0..(EngineStates - 1) : m_randomEngine' = EngineSeed(seed)
    /\ last' = Call(how, Tail(last.args), <<>>, wheel.err, <<>>)
    /\ run' = NewRun(wheel.regions)
    /\ UNCHANGED twin

ConstructDefault ==
    Construct([err |-> NoError, regions |-> <<>>], "RouletteWheel()")

ConstructFromVector ==
    /\ last.op = NotConstructed
    /\ last.args[1] = "RouletteWheel(vector)"
    /\ Construct(RouletteWheelOfVector(last.args[2]), "RouletteWheel(vector)")

ConstructFromMap ==
    /\ last.op = NotConstructed
    /\ last.args[1] = "RouletteWheel(map)"
    /\ Construct(RouletteWheelOfMap(last.args[2], last.args[3]),
                 "RouletteWheel(map)")

\* the same call made on both wheels; seeds holds the seeds of the latest
\* seedRandom calls, calls counts the select() calls made on each wheel
\* since, ret is what the second wheel returned last
TwinSeedRandom(seed, twinSeed) ==
    /\ m_randomEngine' = seedRandom(m_randomEngine, seed)
    /\ twin' = [twin EXCEPT !.m_randomEngine = seedRandom(@, twinSeed),
                            !.seeds = <<seed, twinSeed>>,
                            !.calls = 0,
                            !.ret = <<>>]
    /\ last' = Call("seedRandom", <<seed>>, <<>>, NoError, <<>>)
    /\ run' = NewRun(m_regions)
    /\ UNCHANGED m_regions

TwinSelect ==
    LET selected == select(m_regions, m_randomEngine, 0)
        twinSelected == select(twin.m_regions, twin.m_randomEngine, 0)
    IN
    /\ twin.calls < MaxCalls
    /\ m_randomEngine' = selected.engine
    /\ twin' = [twin EXCEPT !.m_randomEngine = twinSelected.engine,
                            !.calls = @ + 1,
                            !.ret = twinSelected.ret]
    /\ last' = Call("select", <<>>, selected.ret, selected.err, selected.draw)
    /\ run' = NewRun(m_regions)
    /\ UNCHANGED m_regions

\* A wheel with a history (regions, earlier draws) and a second, new wheel
\* are seeded with the same value; the second wheel is given its regions
\* only after the seeding, the same ones the first wheel holds by the time
\* of each select().
SeededSeedRandom(seed) ==
    /\ m_randomEngine' = seedRandom(m_randomEngine, seed)
    /\ twin' = [m_regions |-> <<>>, m_randomEngine |-> seedRandom(0, seed),
                seeds |-> <<seed, seed>>, calls |-> 0, ret |-> <<>>]
    /\ last' = Call("seedRandom", <<seed>>, <<>>, NoError, <<>>)
    /\ run' = NewRun(m_regions)
    /\ UNCHANGED m_regions

SeededSelect ==
    LET selected == select(m_regions, m_randomEngine, 0)
        twinSelected == select(m_regions, twin.m_randomEngine, 0)
    IN
    /\ twin # NoTwin
    /\ m_randomEngine' = selected.engine
    /\ twin' = [twin EXCEPT !.m_randomEngine = twinSelected.engine,
                            !.ret = twinSelected.ret]
    /\ last' = Call("select", <<>>, selected.ret, selected.err, selected.draw)
    /\ run' = NewRun(m_regions)
    /\ UNCHANGED m_regions

\* the same calls made on a wheel and on a second wheel whose select()
\* always draws and walks: further regions added, and select()
ShortcutAddRegion(element, weight) ==
    LET added == addRegion(m_regions, element, weight)
        twinAdded == addRegion(twin.m_regions, element, weight)
    IN
    /\ findElementIndex(m_regions, element) = 0
    /\ WithinTotal(m_regions, weight)
    /\ m_regions' = added.regions
    /\ twin' = [twin EXCEPT !.m_regions = twinAdded.regions]
    /\ last' = Call("addRegion", <<element, weight>>, <<>>, added.err, <<>>)
    /\ run' = NewRun(added.regions)
    /\ UNCHANGED m_randomEngine

ShortcutSelect ==
    LET selected == select(m_regions, m_randomEngine, 0)
        twinSelected == selectByDrawAndWalk(twin.m_regions, twin.m_randomEngine, 0)
    IN
    /\ twin.calls < MaxCalls
    /\ m_randomEngine' = selected.engine
    /\ twin' = [twin EXCEPT !.m_randomEngine = twinSelected.engine,
                            !.calls = @ + 1,
                            !.ret = twinSelected.ret]
    /\ last' = Call("select", <<>>, selected.ret, selected.err, selected.draw)
    /\ run' = NewRun(m_regions)
    /\ UNCHANGED m_regions

Next ==
    \/ Select
    \/ SelectSafe
    \/ \E weightDelta \in WeightInputs : SelectAndModifyWeight(weightDelta)
    \/ SelectAndRemove
    \/ \E element \in Elements : \E weight \in WeightInputs :
          AddRegion(element, weight)
    \/ \E element \in Elements : RemoveElement(element)
    \/ RemoveInvalidRegions
    \/ \E seed \in Seeds : SeedRandom(seed)

\* a wheel that is built, drawn from and reseeded, and queried in between
NextQuery ==
    \/ Select
    \/ \E element \in Elements, weight \in WeightInputs : AddRegion(element, weight)
    \/ \E element \in Elements : RemoveElement(element)
    \/ \E seed \in Seeds : SeedRandom(seed)
    \/ Empty
    \/ Size
    \/ \E element \in Elements : GetSelectionProbability(element)
    \/ GetRegions

\* a wheel loaded from an archive, cleaned and queried
NextLoaded ==
    \/ RemoveInvalidRegions
    \/ \E element \in Elements : GetSelectionProbability(element)

\* two wheels receiving the same calls
NextTwin ==
    \/ \E seed \in Seeds, twinSeed \in Seeds : TwinSeedRandom(seed, twinSeed)
    \/ TwinSelect

\* a constructed wheel and draws before a seeding, then seedRandom(), then
\* changes to the regions and select() calls
NextSeeded ==
    \/ /\ twin = NoTwin
       /\ Select
    \/ \E seed \in Seeds : SeededSeedRandom(seed)
    \/ /\ twin # NoTwin
       /\ \E element \in Elements, weight \in 1..MaxWeight :
             AddRegion(element, weight)
    \/ /\ twin # NoTwin
       /\ \E element \in Elements : RemoveElement(element)
    \/ /\ twin # NoTwin
       /\ RemoveInvalidRegions
    \/ SeededSelect

\* Calls with weights up to the largest value of W.  An addition of W that
\* leaves [WMin, WMax] is a signed overflow, undefined behaviour: what is
\* stored or computed then is any value of W, and the program is followed no
\* further.  run.exact holds the mathematical sum of what each element was
\* given, run.start the regions before the latest call, run.total the total
\* weight select() computed last.
SignedOverflow == "undefined behaviour: signed integer overflow"

LargeWeights == {1, WMax}

InitNumeric ==
    /\ m_regions = <<>>
    /\ m_randomEngine = EngineSeed(0)
    /\ last = Call("RouletteWheel()", <<>>, <<>>, NoError, <<>>)
    /\ run = [start |-> <<>>, drawn |-> <<>>, calls |-> 0,
              exact |-> [element \in Elements |-> 0], total |-> 0]
    /\ twin = NoTwin

NumericAddRegion(element, weight) ==
    \E undefinedSum \in WMin..WMax :
    LET index == findElementIndex(m_regions, element)
        overflows == index # 0 /\ getWeight(m_regions[index]) + weight > WMax
        added == addRegion(m_regions, element, weight)
    IN
    /\ last.err # SignedOverflow
    /\ run.calls < MaxCalls
    /\ ~overflows => undefinedSum = 0
    /\ m_regions' = IF overflows
                    THEN [m_regions EXCEPT ![index] = setWeight(@, undefinedSum)]
                    ELSE added.regions
    /\ last' = Call("addRegion", <<element, weight>>, <<>>,
                    IF overflows THEN SignedOverflow ELSE added.err, <<>>)
    /\ run' = [run EXCEPT !.start = m_regions,
                          !.calls = @ + 1,
                          !.exact[element] = @ + weight]
    /\ UNCHANGED m_randomEngine
    /\ UNCHANGED twin

NumericSelectAndModifyWeight(weightDelta) ==
    \E undefinedSum \in WMin..WMax :
    LET totalOverflows == size(m_regions) >= 2 /\ SumOfWeights(m_regions) > WMax
        selected == select(m_regions, m_randomEngine, 0)
        index == findElementIndex(m_regions, selected.ret[1])
        weightOverflows == getWeight(m_regions[index]) + weightDelta > WMax
    IN
    /\ last.err # SignedOverflow
    /\ run.calls < MaxCalls
    /\ IF empty(m_regions)
       THEN /\ undefinedSum = 0
            /\ last' = Call("selectAndModifyWeight", <<weightDelta>>, <<>>,
                            selected.err, <<>>)
            /\ run' = [run EXCEPT !.start = m_regions, !.calls = @ + 1]
            /\ UNCHANGED <<m_regions, m_randomEngine>>
       ELSE IF totalOverflows
       THEN /\ last' = Call("selectAndModifyWeight", <<weightDelta>>, <<>>,
                            SignedOverflow, <<>>)
            /\ run' = [run EXCEPT !.start = m_regions, !.calls = @ + 1,
                                  !.total = undefinedSum]
            /\ UNCHANGED <<m_regions, m_randomEngine>>
       ELSE /\ ~weightOverflows => undefinedSum = 0
            /\ m_regions' = IF weightOverflows
                            THEN storeNewWeight(m_regions, index, undefinedSum)
                            ELSE modifyElementWeight(m_regions, selected.ret[1],
                                                     weightDelta)
            /\ m_randomEngine' = selected.engine
            /\ last' = Call("selectAndModifyWeight", <<weightDelta>>, selected.ret,
                            IF weightOverflows THEN SignedOverflow ELSE NoError,
                            selected.draw)
            /\ run' = [run EXCEPT !.start = m_regions,
                                  !.calls = @ + 1,
                                  !.exact[selected.ret[1]] = @ + weightDelta,
                                  !.total = IF size(m_regions) >= 2
                                            THEN calculateTotalWeight(m_regions)
                                            ELSE @]
    /\ UNCHANGED twin

NextNumeric ==
    \/ \E element \in Elements, weight \in LargeWeights :
          NumericAddRegion(element, weight)
    \/ \E weightDelta \in LargeWeights : NumericSelectAndModifyWeight(weightDelta)

\* a wheel and its always-drawing counterpart receiving the same calls
NextShortcut ==
    \/ \E element \in Elements, weight \in 1..MaxWeight :
          ShortcutAddRegion(element, weight)
    \/ ShortcutSelect

\* DynamicProbabilityAdjustment: three players of weight PlayerWeight, then
\* Rounds calls of selectAndModifyWeight(-WinnerPenalty)
Players == 3
PlayerWeight == 10
WinnerPenalty == 2
Rounds == 5

RECURSIVE AddedPlayers(_)
AddedPlayers(n) ==
    IF n = 0 THEN <<>>
    ELSE addRegion(AddedPlayers(n - 1), n, PlayerWeight).regions

InitDynamic ==
    /\ m_regions = AddedPlayers(Players)
    /\ m_randomEngine = EngineSeed(0)
    /\ last = Call("addRegion", <<Players, PlayerWeight>>, <<>>, NoError, <<>>)
    /\ run = NewRun(AddedPlayers(Players))
    /\ twin = NoTwin

\* one round of the loop: selectAndModifyWeight(-WinnerPenalty), the draw
\* being any value of its range
DynamicRound ==
    \E randomValue \in DrawRange(calculateTotalWeight(m_regions)) :
    LET selected == selectDrawing(m_regions, m_randomEngine, randomValue)
        regions == IF selected.err # NoError THEN m_regions
                   ELSE modifyElementWeight(m_regions, selected.ret[1],
                                            0 - WinnerPenalty)
    IN
    /\ Len(run.drawn) < Rounds
    /\ m_regions' = regions
    /\ m_randomEngine' = selected.engine
    /\ last' = Call("selectAndModifyWeight", <<0 - WinnerPenalty>>, selected.ret,
                    selected.err, selected.draw)
    /\ run' = IF selected.err # NoError THEN run
              ELSE [run EXCEPT !.drawn = Append(@, selected.ret[1])]
    /\ UNCHANGED twin

NextDynamic == DynamicRound

\* ManyModifications: regions 1..n added with positive weights, then
\* selectAndModifyWeight(-1) as long as the wheel is not empty; run.calls
\* counts the calls made
RECURSIVE AddedRegions(_)
AddedRegions(weights) ==
    IF weights = <<>> THEN <<>>
    ELSE addRegion(AddedRegions(SubSeq(weights, 1, Len(weights) - 1)),
                   Len(weights), weights[Len(weights)]).regions

InitRounds ==
    \E n \in 1..NumElements : \E weights \in [1..n -> 1..MaxWeight] :
       /\ m_regions = AddedRegions(weights)
       /\ m_randomEngine = EngineSeed(0)
       /\ last = Call("addRegion", <<n, weights[n]>>, <<>>, NoError, <<>>)
       /\ run = [start |-> AddedRegions(weights), drawn |-> <<>>, calls |-> 0]
       /\ twin = NoTwin

ModificationRound ==
    \E randomValue \in DrawRange(calculateTotalWeight(m_regions)) :
    LET selected == selectDrawing(m_regions, m_randomEngine, randomValue)
        regions == IF selected.err # NoError THEN m_regions
                   ELSE modifyElementWeight(m_regions, selected.ret[1], 0 - 1)
    IN
    /\ ~empty(m_regions)
    /\ m_regions' = regions
    /\ m_randomEngine' = selected.engine
    /\ last' = Call("selectAndModifyWeight", <<0 - 1>>, selected.ret,
                    selected.err, selected.draw)
    /\ run' = [run EXCEPT !.calls = @ + 1]
    /\ UNCHANGED twin

NextRounds == ModificationRound

\* the first call on a wheel loaded from an archive: each of the operations
\* that add or remove regions
NextOrder ==
    \/ /\ last.op = "serialize"
       /\ \E element \in Elements, weight \in WeightInputs :
             AddRegion(element, weight)
    \/ /\ last.op = "serialize"
       /\ \E element \in Elements : RemoveElement(element)
    \/ /\ last.op = "serialize"
       /\ SelectAndRemove
    \/ /\ last.op = "serialize"
       /\ SelectAndModifyWeight(0 - 1)
    \/ /\ last.op = "serialize"
       /\ RemoveInvalidRegions

\* one construction from an input
NextConstruct ==
    \/ ConstructDefault
    \/ ConstructFromVector
    \/ ConstructFromMap

Spec == Init /\ [][Next]_vars

SpecOrder == InitOrder /\ [][NextOrder]_vars

SpecSeeded == Init /\ [][NextSeeded]_vars

SpecNumeric == InitNumeric /\ [][NextNumeric]_vars

SpecDynamic == InitDynamic /\ [][NextDynamic]_vars

SpecRounds == InitRounds /\ [][NextRounds]_vars

\* the loop goes on calling as long as the wheel is not empty
SpecRoundsFair == SpecRounds /\ WF_vars(ModificationRound)

SpecShortcut == InitShortcut /\ [][NextShortcut]_vars

SpecConstruct == InitInput /\ [][NextConstruct]_vars

SpecTwin == InitTwin /\ [][NextTwin]_vars

SpecLoaded == InitLoaded /\ [][NextLoaded]_vars

SpecQuery == Init /\ [][NextQuery]_vars

TypeOK ==
    /\ m_randomEngine \in 0..(EngineStates - 1)
    /\ \A k \in 1..Len(m_regions) :
          /\ getElement(m_regions[k]) \in Elements
          /\ getWeight(m_regions[k]) \in WMin..WMax

\* ------------------------------------------------- notions the claims use
ElementsOf(regions) == {getElement(regions[k]) : k \in 1..Len(regions)}

AllWeightsPositive(regions) ==
    \A k \in 1..Len(regions) : getWeight(regions[k]) > 0

\* the weight stored for an element that is present
WeightOf(regions, element) ==
    getWeight(regions[CHOOSE k \in 1..Len(regions) :
                          getElement(regions[k]) = element])

\* the mathematical sum of the weights stored before position i
SumBefore(regions, i) == SumOfWeights(SubSeq(regions, 1, i - 1))

\* the values of the draw that make the walk return the element of region i
DrawsSelecting(regions, i) ==
    {R \in 0..(SumOfWeights(regions) - 1) :
        selectElementByWeight(regions, R) = getElement(regions[i])}

\* ----------------------------------------------------------------- claims
\* C1: in a wheel with at least one region and all weights strictly positive
\* select() returns an element stored in the wheel, whatever value of
\* [0, T-1] the draw produces.
C1_SelectReturnsStoredElement ==
    (~empty(m_regions) /\ AllWeightsPositive(m_regions)) =>
        /\ \A R \in 0..(calculateTotalWeight(m_regions) - 1) :
              selectElementByWeight(m_regions, R) \in ElementsOf(m_regions)
        /\ last.op = "select" =>
              /\ last.err = NoError
              /\ Len(last.ret) = 1
              /\ last.ret[1] \in ElementsOf(m_regions)

C1_Witness ==
    /\ last.op = "select"
    /\ size(m_regions) = 3
    /\ last.draw # <<>>
    /\ last.ret = <<getElement(m_regions[3])>>

\* C2: with two or more regions of total weight T the draw lies in 0..T-1,
\* every value of 0..T-1 can be drawn, and the walk maps 0..T-1 onto the
\* regions as contiguous intervals in storage order: the values selecting
\* region i are those from the sum of the weights before i up to, not
\* including, that sum plus weight(i), so exactly weight(i) of them.
C2_DrawPartitionsTotal ==
    size(m_regions) >= 2 =>
        LET T == calculateTotalWeight(m_regions) IN
        /\ T = SumOfWeights(m_regions)
        /\ \A engine \in 0..(EngineStates - 1) :
              generateRandomWeight(engine, T, 0).value \in 0..(T - 1)
        /\ \A R \in 0..(T - 1) : \E engine \in 0..(EngineStates - 1) :
              generateRandomWeight(engine, T, 0).value = R
        /\ last.op = "select" => (Len(last.draw) = 1 /\ last.draw[1] \in 0..(T - 1))
        /\ \A i \in 1..size(m_regions) :
              /\ DrawsSelecting(m_regions, i) =
                    {R \in 0..(T - 1) :
                        /\ SumBefore(m_regions, i) <= R
                        /\ R < SumBefore(m_regions, i) + getWeight(m_regions[i])}
              /\ Cardinality(DrawsSelecting(m_regions, i)) = getWeight(m_regions[i])

C2_Witness ==
    /\ size(m_regions) = 3
    /\ getWeight(m_regions[1]) = 1
    /\ getWeight(m_regions[2]) = 2
    /\ getWeight(m_regions[3]) = 1
    /\ last.op = "select"
    /\ last.draw = <<1>>
    /\ last.ret = <<getElement(m_regions[2])>>

\* C3: addRegion(element, weight) with weight <= 0 throws
\* std::invalid_argument and leaves the region sequence as it was, whether
\* or not the element is present.
C3_AddRegionRejectsNonPositive ==
    [][(last'.op = "addRegion" /\ last'.args[2] <= 0) =>
          /\ last'.err = InvalidWeight
          /\ m_regions' = m_regions]_vars

C3_Witness ==
    /\ last.op = "addRegion"
    /\ last.args[2] = 0
    /\ last.err = InvalidWeight
    /\ last.args[1] \in ElementsOf(m_regions)
    /\ size(m_regions) >= 2

\* C4: addRegion(element, weight) with weight > 0 adds weight to the stored
\* weight of a present element and keeps the size; for an absent element the
\* size grows by one and the element is stored with exactly that weight.
C4_AddRegionAccumulatesOrAppends ==
    [][(last'.op = "addRegion" /\ last'.args[2] > 0) =>
          LET element == last'.args[1]
              weight == last'.args[2]
          IN /\ last'.err = NoError
             /\ element \in ElementsOf(m_regions')
             /\ IF element \in ElementsOf(m_regions)
                THEN /\ size(m_regions') = size(m_regions)
                     /\ WeightOf(m_regions', element) =
                           WeightOf(m_regions, element) + weight
                ELSE /\ size(m_regions') = size(m_regions) + 1
                     /\ WeightOf(m_regions', element) = weight]_vars

C4_Witness ==
    /\ last.op = "addRegion"
    /\ last.err = NoError
    /\ size(m_regions) >= 2
    /\ last.args[2] = 2
    /\ WeightOf(m_regions, last.args[1]) = 3

\* C5: no two stored regions hold equal elements.
C5_ElementsAreUnique ==
    \A i, j \in 1..size(m_regions) :
        getElement(m_regions[i]) = getElement(m_regions[j]) => i = j

C5_Witness ==
    /\ size(m_regions) = 3
    /\ last.op = "addRegion"
    /\ last.err = NoError
    /\ last.args[1] = getElement(m_regions[1])
    /\ getWeight(m_regions[1]) > last.args[2]

\* C6: whenever a call has returned, every stored weight is strictly
\* positive.
C6_StoredWeightsPositive ==
    \A k \in 1..size(m_regions) : getWeight(m_regions[k]) > 0

C6_Witness ==
    /\ last.op = "selectAndModifyWeight"
    /\ last.args[1] < 0
    /\ last.err = NoError
    /\ size(m_regions) = 3
    /\ last.ret[1] \in ElementsOf(m_regions)
    /\ WeightOf(m_regions, last.ret[1]) = 1

\* C7: in a run of selectAndRemove() calls on a wheel that starts with N
\* distinct elements, the elements returned so far are pairwise different,
\* they and the elements still stored are exactly the elements the run
\* started with, the size has gone down by one per call, and the wheel is
\* empty exactly when N calls have been made; an addRegion with a positive
\* weight on the drained wheel stores one region again.
C7_DrainVisitsEachElementOnce ==
    /\ [](LET N == size(run.start)
              calls == Len(run.drawn)
          IN /\ calls <= N
             /\ size(m_regions) = N - calls
             /\ \A i, j \in 1..calls : run.drawn[i] = run.drawn[j] => i = j
             /\ {run.drawn[i] : i \in 1..calls} \cup ElementsOf(m_regions) =
                   ElementsOf(run.start)
             /\ {run.drawn[i] : i \in 1..calls} \cap ElementsOf(m_regions) = {}
             /\ empty(m_regions) <=> calls = N
             /\ (last.op = "selectAndRemove" /\ last.err = NoError) =>
                   (calls >= 1 /\ last.ret = <<run.drawn[calls]>>))
    /\ [][(/\ empty(m_regions)
           /\ Len(run.drawn) >= 1
           /\ last'.op = "addRegion"
           /\ last'.args[2] > 0) =>
              (size(m_regions') = 1 /\ ~empty(m_regions'))]_vars

C7_Witness ==
    /\ size(run.start) = 3
    /\ Len(run.drawn) = 3
    /\ empty(m_regions)
    /\ last.op = "selectAndRemove"
    /\ last.err = NoError

\* C8: selectAndModifyWeight(delta) on a non-empty wheel returns the element
\* select() chooses; when that element's weight w has w + delta <= 0 its
\* region is removed and the size goes down by one, otherwise its weight
\* becomes w + delta and the size stays.
C8_ModifyPrunesOrUpdates ==
    [][(last'.op = "selectAndModifyWeight" /\ ~empty(m_regions)) =>
          LET delta == last'.args[1]
              chosen == select(m_regions, m_randomEngine, 0)
              element == chosen.ret[1]
              w == WeightOf(m_regions, element)
          IN /\ last'.err = NoError
             /\ last'.ret = chosen.ret
             /\ element \in ElementsOf(m_regions)
             /\ IF w + delta <= 0
                THEN /\ size(m_regions') = size(m_regions) - 1
                     /\ element \notin ElementsOf(m_regions')
                ELSE /\ size(m_regions') = size(m_regions)
                     /\ WeightOf(m_regions', element) = w + delta
             /\ delta > 0 => size(m_regions') = size(m_regions)]_vars

C8_Witness ==
    /\ last.op = "selectAndModifyWeight"
    /\ last.args[1] = -2
    /\ last.err = NoError
    /\ last.draw # <<>>
    /\ size(m_regions) = 2
    /\ last.ret[1] \notin ElementsOf(m_regions)

\* C9: on a wheel without regions select() throws std::runtime_error and
\* selectSafe() returns an empty optional without throwing; on a non-empty
\* wheel selectSafe() returns a value, an element stored in the wheel.
C9_SelectThrowsSelectSafeDoesNot ==
    /\ (last.op = "select" /\ empty(m_regions)) =>
          (last.err = EmptyWheel /\ last.ret = <<>>)
    /\ (last.op = "selectSafe" /\ empty(m_regions)) =>
          (last.err = NoError /\ last.ret = <<>>)
    /\ (last.op = "selectSafe" /\ ~empty(m_regions)) =>
          /\ last.err = NoError
          /\ Len(last.ret) = 1
          /\ last.ret[1] \in ElementsOf(m_regions)

C9_Witness ==
    /\ last.op = "selectSafe"
    /\ empty(m_regions)
    /\ last.ret = <<>>
    /\ last.err = NoError

\* C10: selectAndRemove() and selectAndModifyWeight(delta) on a wheel
\* without regions throw the std::runtime_error of select() and leave the
\* wheel empty; after the failure an addRegion with a positive weight and a
\* select() on its result both succeed.
C10_EmptyWheelErrorsLeaveWheelUsable ==
    /\ [][(last'.op \in {"selectAndRemove", "selectAndModifyWeight"}
             /\ empty(m_regions)) =>
              /\ last'.err = EmptyWheel
              /\ last'.ret = <<>>
              /\ empty(m_regions')]_vars
    /\ []((last.op \in {"selectAndRemove", "selectAndModifyWeight"}
             /\ last.err # NoError) =>
              /\ empty(m_regions)
              /\ \A element \in Elements : \A weight \in 1..MaxWeight :
                    LET added == addRegion(m_regions, element, weight) IN
                    /\ added.err = NoError
                    /\ select(added.regions, m_randomEngine, 0).err = NoError
                    /\ select(added.regions, m_randomEngine, 0).ret = <<element>>)
    /\ [][(last.op \in {"selectAndRemove", "selectAndModifyWeight"}
             /\ last.err # NoError
             /\ last'.op = "addRegion"
             /\ last'.args[2] > 0) =>
              (last'.err = NoError /\ size(m_regions') = 1)]_vars

C10_Witness ==
    /\ last.op = "selectAndModifyWeight"
    /\ last.err = EmptyWheel
    /\ empty(m_regions)

\* C11: removeElement(e) on a wheel that does not hold e returns false and
\* leaves the regions as they were; on a wheel that holds e it returns true,
\* the size drops by exactly one, e is no longer stored, and every other
\* region is still stored with its element and weight.
C11_RemoveElementContract ==
    [][last'.op = "removeElement" =>
          LET element == last'.args[1] IN
          IF element \notin ElementsOf(m_regions)
          THEN /\ last'.ret = <<FALSE>>
               /\ m_regions' = m_regions
          ELSE /\ last'.ret = <<TRUE>>
               /\ size(m_regions') = size(m_regions) - 1
               /\ element \notin ElementsOf(m_regions')
               /\ \A k \in 1..Len(m_regions) :
                     getElement(m_regions[k]) # element =>
                        \E j \in 1..Len(m_regions') : m_regions'[j] = m_regions[k]]_vars

C11_Witness ==
    /\ last.op = "removeElement"
    /\ last.ret = <<TRUE>>
    /\ size(m_regions) = 2
    /\ last.args[1] \notin ElementsOf(m_regions)

\* C12: removeInvalidRegions() removes exactly the regions whose weight is
\* <= 0 and keeps every region whose weight is positive; it returns the
\* number of regions it removed, which is the old size minus the new size;
\* when no region has a weight <= 0 it returns 0 and leaves the regions as
\* they were.
C12_RemoveInvalidRegionsContract ==
    [][last'.op = "removeInvalidRegions" =>
          LET invalid == {k \in 1..Len(m_regions) : getWeight(m_regions[k]) <= 0} IN
          /\ \A k \in 1..Len(m_regions) :
                (k \in invalid) <=>
                   (\A j \in 1..Len(m_regions') : m_regions'[j] # m_regions[k])
          /\ \A j \in 1..Len(m_regions') :
                \E k \in 1..Len(m_regions) : m_regions[k] = m_regions'[j]
          /\ last'.ret = <<Cardinality(invalid)>>
          /\ last'.ret = <<size(m_regions) - size(m_regions')>>
          /\ invalid = {} => (last'.ret = <<0>> /\ m_regions' = m_regions)]_vars

C12_Witness ==
    /\ last.op = "removeInvalidRegions"
    /\ last.ret = <<2>>
    /\ size(m_regions) = 1

\* a <= b and a < b for doubles
DoubleLeq(a, b) ==
    LET e == IF a.e < b.e THEN a.e ELSE b.e IN
    a.m * 2^(a.e - e) <= b.m * 2^(b.e - e)

DoubleLess(a, b) == DoubleLeq(a, b) /\ a # b

\* the double x is the quotient n / d (d > 0) up to the rounding of two
\* operations: within two units in the last place of x
DoubleNear(x, n, d) ==
    LET e == IF x.e < 0 THEN x.e ELSE 0
        distance == x.m * 2^(x.e - e) * d - n * 2^(0 - e)
    IN (IF distance < 0 THEN 0 - distance ELSE distance) <= 2 * d * 2^(x.e - e)

\* the value getSelectionProbability(element) is to return on the regions:
\* 0.0 for an empty wheel, an absent element or a total weight <= 0, and
\* 100 * weight(element) / totalWeight otherwise
IsSelectionProbability(value, regions, element) ==
    IF \/ empty(regions)
       \/ element \notin ElementsOf(regions)
       \/ SumOfWeights(regions) <= 0
    THEN value = DoubleFromW(0)
    ELSE DoubleNear(value, 100 * WeightOf(regions, element), SumOfWeights(regions))

\* the value lies in (0, 100] and is 100 exactly for the only region
IsShareOfWheel(value, regions) ==
    /\ DoubleLess(DoubleFromW(0), value)
    /\ DoubleLeq(value, DoubleFromW(100))
    /\ (value = DoubleFromW(100)) <=> (size(regions) = 1)

DoubleAdd(a, b) ==
    LET e == IF a.e < b.e THEN a.e ELSE b.e IN
    DoubleOf(a.m * 2^(a.e - e) + b.m * 2^(b.e - e), 1, e)

\* getSelectionProbability added up over the first k stored elements, in
\* storage order
RECURSIVE SumOfProbabilities(_, _)
SumOfProbabilities(regions, k) ==
    IF k = 0 THEN DoubleFromW(0)
    ELSE DoubleAdd(SumOfProbabilities(regions, k - 1),
                   getSelectionProbability(regions, getElement(regions[k])))

\* the distance of the double x from 100.0 is at most the given number of
\* units in the last place of 100.0
DoubleNear100(x, units) ==
    LET hundred == DoubleFromW(100)
        e == IF x.e < hundred.e THEN x.e ELSE hundred.e
        distance == x.m * 2^(x.e - e) - hundred.m * 2^(hundred.e - e)
    IN (IF distance < 0 THEN 0 - distance ELSE distance) <= units * 2^(hundred.e - e)

\* C14 as stated: in every non-empty wheel the values of
\* getSelectionProbability(e), added up over the stored elements, equal 100.
C14_ProbabilitiesSumToExactly100 ==
    ~empty(m_regions) =>
       SumOfProbabilities(m_regions, Len(m_regions)) = DoubleFromW(100)

\* C14: in every non-empty wheel reachable through the public operations
\* the stored weights sum exactly to the total weight used as the
\* denominator, and the values of getSelectionProbability(e), added up over
\* the stored elements, equal 100 up to the rounding of the doubles: within
\* size() + 1 units in the last place of 100.0.
C14_ProbabilitiesSumTo100 ==
    ~empty(m_regions) =>
       /\ calculateTotalWeight(m_regions) = SumOfWeights(m_regions)
       /\ calculateTotalWeight(m_regions) > 0
       /\ DoubleNear100(SumOfProbabilities(m_regions, Len(m_regions)),
                        size(m_regions) + 1)

C14_Witness ==
    /\ last.op = "getSelectionProbability"
    /\ size(m_regions) = 3
    /\ last.args[1] \in ElementsOf(m_regions)
    /\ SumOfProbabilities(m_regions, Len(m_regions)) # DoubleFromW(100)

\* C15: two wheels that hold the same regions in the same order and were
\* reseeded with the same seed return the same element from every
\* corresponding select() call, however many calls were made since.
C15_SameSeedSameSelections ==
    (/\ last.op = "select"
     /\ twin.m_regions = m_regions
     /\ twin.seeds # <<>>
     /\ twin.seeds[1] = twin.seeds[2]
     /\ twin.calls > 0) => last.ret = twin.ret

C15_Witness ==
    /\ last.op = "select"
    /\ size(m_regions) = 2
    /\ twin.m_regions = m_regions
    /\ twin.seeds = <<1, 1>>
    /\ twin.calls = MaxCalls
    /\ last.ret = twin.ret
    /\ last.ret # <<>>

\* the position of the first pair of the list that holds the element
FirstOccurrence(elementWeightPairs, element) ==
    CHOOSE k \in 1..Len(elementWeightPairs) :
        /\ elementWeightPairs[k][1] = element
        /\ \A j \in 1..(k - 1) : elementWeightPairs[j][1] # element

\* the sum of the weights the list pairs with the element
RECURSIVE SumOfOccurrences(_, _)
SumOfOccurrences(elementWeightPairs, element) ==
    IF elementWeightPairs = <<>> THEN 0
    ELSE (IF Head(elementWeightPairs)[1] = element
          THEN Head(elementWeightPairs)[2] ELSE 0)
         + SumOfOccurrences(Tail(elementWeightPairs), element)

SuppliedWeights ==
    IF last.op = "RouletteWheel(vector)"
    THEN {last.args[1][k][2] : k \in 1..Len(last.args[1])}
    ELSE {last.args[1][element] : element \in DOMAIN last.args[1]}

\* the elements a constructor was given
SuppliedElements ==
    IF last.op = "RouletteWheel(vector)"
    THEN {last.args[1][k][1] : k \in 1..Len(last.args[1])}
    ELSE DOMAIN last.args[1]

\* C17: constructing a wheel from a mapping or from a list fails with the
\* InvalidWeight error whenever one of the supplied weights is <= 0, at
\* whatever position of the input, and no wheel results; when all supplied
\* weights are positive it succeeds with one region per distinct element.
C17_ConstructorsValidateWeights ==
    last.op \in {"RouletteWheel(vector)", "RouletteWheel(map)"} =>
       IF \E weight \in SuppliedWeights : weight <= 0
       THEN /\ last.err = InvalidWeight
            /\ empty(m_regions)
       ELSE /\ last.err = NoError
            /\ ElementsOf(m_regions) = SuppliedElements
            /\ size(m_regions) = Cardinality(SuppliedElements)

C17_Witness ==
    /\ last.op = "RouletteWheel(map)"
    /\ last.err = InvalidWeight
    /\ Len(last.args[2]) = MaxPairs
    /\ last.args[1][last.args[2][1]] > 0
    /\ last.args[1][last.args[2][MaxPairs]] <= 0

\* the read-only queries
Queries == {"size", "empty", "getSelectionProbability", "getRegions"}

\* C18: size(), empty(), getSelectionProbability() and getRegions() change
\* neither the regions nor the state of the random engine, so that a
\* select() made after any of them returns, and leaves the engine in, what
\* it would have without the query.
C18_QueriesChangeNothing ==
    [][last'.op \in Queries =>
          /\ m_regions' = m_regions
          /\ m_randomEngine' = m_randomEngine
          /\ \A undefinedDraw \in UndefinedDraws(m_regions) :
                /\ select(m_regions', m_randomEngine', undefinedDraw).ret
                      = select(m_regions, m_randomEngine, undefinedDraw).ret
                /\ select(m_regions', m_randomEngine', undefinedDraw).engine
                      = select(m_regions, m_randomEngine, undefinedDraw).engine]_vars

C18_Witness ==
    /\ last.op = "getSelectionProbability"
    /\ size(m_regions) = 3
    /\ m_randomEngine # EngineSeed(0)
    /\ last.ret # <<DoubleFromW(0)>>

\* a select() or selectSafe() that drew the value R for its walk
WalkedWith(R) ==
    /\ last.op \in {"select", "selectSafe"}
    /\ last.err = NoError
    /\ last.draw = <<R>>

\* C20 as stated: in the walk of select() over the regions in storage
\* order, region i is the selected one exactly when the drawn value R lies
\* strictly between the running sums before and after adding region i.
C20_SelectedStrictlyBetweenSums ==
    \A R \in WMin..WMax : WalkedWith(R) =>
       \A i \in 1..size(m_regions) :
          (last.ret = <<getElement(m_regions[i])>>) <=>
             /\ SumBefore(m_regions, i) < R
             /\ R < SumBefore(m_regions, i + 1)

\* C20: in the walk of select() over the regions in storage order, region
\* i is the selected one exactly when the drawn value R is at least the
\* running sum before adding region i and less than the running sum after
\* adding it.
C20_SelectedFromSumBefore ==
    \A R \in WMin..WMax : WalkedWith(R) =>
       \A i \in 1..size(m_regions) :
          (last.ret = <<getElement(m_regions[i])>>) <=>
             /\ SumBefore(m_regions, i) <= R
             /\ R < SumBefore(m_regions, i + 1)

C20_Witness ==
    /\ size(m_regions) = 3
    /\ WalkedWith(SumBefore(m_regions, 2))
    /\ last.ret = <<getElement(m_regions[2])>>

\* C21 as stated: a wheel whose select() returns the only region's element
\* directly and a wheel whose select() always draws and walks, started from
\* the same seed and given the same regions, return the same element from
\* every select() call.
C21_ShortcutChangesNoSelection ==
    (last.op = "select" /\ twin.m_regions = m_regions) => last.ret = twin.ret

\* C21: on a wheel with one region select() returns the element a select()
\* that always draws and walks returns for that call, but it leaves the
\* random engine where it was while the draw advances it; as long as both
\* engines are in the same state both wheels return the same elements, and
\* once they are not, later select() calls on more regions can differ.
C21_ShortcutSkipsTheDraw ==
    /\ [][(last'.op = "select" /\ size(m_regions) = 1
             /\ twin.m_regions = m_regions) =>
              /\ last'.ret = twin'.ret
              /\ m_randomEngine' = m_randomEngine
              /\ twin'.m_randomEngine = EngineAdvance(twin.m_randomEngine)]_vars
    /\ []((last.op = "select" /\ twin.m_regions = m_regions
             /\ twin.m_randomEngine = m_randomEngine) => last.ret = twin.ret)

C21_Witness ==
    /\ last.op = "select"
    /\ size(m_regions) = 1
    /\ twin.m_regions = m_regions
    /\ last.ret = twin.ret
    /\ twin.m_randomEngine # m_randomEngine

\* the position of the region that holds the element
PositionOf(regions, element) ==
    CHOOSE k \in 1..Len(regions) : getElement(regions[k]) = element

\* the regions that remain stand in the order they stood in before
KeepsRelativeOrder(before, after) ==
    /\ ElementsOf(after) \subseteq ElementsOf(before)
    /\ \A i, j \in 1..Len(after) :
          i < j => PositionOf(before, getElement(after[i]))
                      < PositionOf(before, getElement(after[j]))

\* C22: the regions are kept in insertion order: addRegion of an absent
\* element puts its region after all the regions there were, addRegion of a
\* present element leaves every region at its position, and
\* removeElement, selectAndRemove, selectAndModifyWeight and
\* removeInvalidRegions leave the regions that remain in the order they
\* had.
C22_RegionsKeepInsertionOrder ==
    [][/\ (last'.op = "addRegion" /\ last'.err = NoError) =>
             IF last'.args[1] \in ElementsOf(m_regions)
             THEN /\ Len(m_regions') = Len(m_regions)
                  /\ \A k \in 1..Len(m_regions) :
                        getElement(m_regions'[k]) = getElement(m_regions[k])
             ELSE /\ Len(m_regions') = Len(m_regions) + 1
                  /\ SubSeq(m_regions', 1, Len(m_regions)) = m_regions
                  /\ getElement(m_regions'[Len(m_regions')]) = last'.args[1]
       /\ last'.op \in {"removeElement", "selectAndRemove",
                        "selectAndModifyWeight", "removeInvalidRegions"} =>
             KeepsRelativeOrder(m_regions, m_regions')]_vars

C22_Witness ==
    /\ last.op = "selectAndModifyWeight"
    /\ last.err = NoError
    /\ size(m_regions) = 2
    /\ \A k \in 1..2 : getElement(m_regions[k]) > last.ret[1]

\* the values of the draw in [0, T) for which the walk returns the element
DrawsOf(regions, element) ==
    {R \in 0..(SumOfWeights(regions) - 1) :
        selectElementByWeight(regions, R) = element}

\* C23: two wheels that hold the same (element, weight) pairs in different
\* orders, as two iteration orders of the same map build them, give every
\* element the same number of draw values in [0, T), the weight of the
\* element.
C23_OrderKeepsDrawCounts ==
    (last.op = "RouletteWheel(map)" /\ last.err = NoError) =>
       \A order \in IterationOrders(DOMAIN last.args[1]) :
          LET reordered == RouletteWheelOfMap(last.args[1], order).regions IN
          \A element \in DOMAIN last.args[1] :
             /\ Cardinality(DrawsOf(reordered, element))
                   = Cardinality(DrawsOf(m_regions, element))
             /\ Cardinality(DrawsOf(m_regions, element)) = last.args[1][element]

C23_Witness ==
    /\ last.op = "RouletteWheel(map)"
    /\ last.err = NoError
    /\ size(m_regions) = MaxPairs
    /\ \E order \in IterationOrders(DOMAIN last.args[1]) :
          \E element \in DOMAIN last.args[1] :
             DrawsOf(RouletteWheelOfMap(last.args[1], order).regions, element)
                # DrawsOf(m_regions, element)

\* C24: from three regions of weight 10, five selectAndModifyWeight(-2)
\* calls leave the wheel non-empty after every call and all three regions
\* present after the fifth, whichever elements the draws select.
C24_AllThreeRemainAfterFiveRounds ==
    /\ Len(run.drawn) >= 1 => ~empty(m_regions)
    /\ Len(run.drawn) = Rounds => size(m_regions) = Players

\* what the five rounds do guarantee: the wheel is never empty, and a region
\* is missing after the fifth round exactly when one element won all five
C24_ThreeRemainUnlessOneWinsAll ==
    /\ Len(run.drawn) >= 1 => ~empty(m_regions)
    /\ Len(run.drawn) = Rounds =>
          IF \A k \in 1..Rounds : run.drawn[k] = run.drawn[1]
          THEN /\ size(m_regions) = Players - 1
               /\ findElementIndex(m_regions, run.drawn[1]) = 0
          ELSE size(m_regions) = Players

\* the wheel started with n regions that all have the weight w
StartedUniform(n, w) ==
    /\ Len(run.start) = n
    /\ \A k \in 1..n : getWeight(run.start[k]) = w

\* C25: repeated selectAndModifyWeight(-1) never increases size(), and on a
\* wheel of n regions that each start with weight w at least
\* n - floor(k / w) regions remain after k calls, whichever elements the
\* draws select.
C25_SizeShrinksSlowly ==
    /\ [][last'.op = "selectAndModifyWeight" =>
              size(m_regions') <= size(m_regions)]_vars
    /\ [](\A n \in 1..NumElements, w \in 1..MaxWeight :
             StartedUniform(n, w) =>
                size(m_regions) >= n - (run.calls \div w))

C25_Witness ==
    /\ StartedUniform(2, MaxWeight)
    /\ run.calls = MaxWeight
    /\ size(m_regions) = 1

\* C27: with integral weights every selectAndModifyWeight() with the default
\* delta -1 on a non-empty wheel lowers the total weight by exactly 1, so a
\* wheel of total weight T is empty after exactly T calls, not earlier, and
\* the loop of calls does empty it.
C27_TotalDropsByOnePerCall ==
    /\ [][(last'.op = "selectAndModifyWeight" /\ ~empty(m_regions)) =>
              SumOfWeights(m_regions') = SumOfWeights(m_regions) - 1]_vars
    /\ [](/\ SumOfWeights(m_regions) = SumOfWeights(run.start) - run.calls
          /\ calculateTotalWeight(m_regions) = SumOfWeights(m_regions)
          /\ empty(m_regions) <=> run.calls = SumOfWeights(run.start))
    /\ <>[]empty(m_regions)

C27_Witness ==
    /\ empty(m_regions)
    /\ size(run.start) > 1
    /\ run.calls = SumOfWeights(run.start)
    /\ run.calls > size(run.start)

\* C26: with integral weights, whenever select() draws (two or more regions,
\* all weights positive) the total weight T is at least 2, the drawn value
\* lies in [0, T-1], and the walk returns from inside its loop for the drawn
\* value and for the largest value of that range: the return after the loop
\* is not reached.
C26_DrawNeverFallsThrough ==
    [][(last'.draw # <<>> /\ AllWeightsPositive(m_regions)) =>
          LET totalWeight == calculateTotalWeight(m_regions) IN
          /\ size(m_regions) >= 2
          /\ totalWeight >= 2
          /\ last'.draw[1] \in DrawRange(totalWeight)
          /\ selectElementByWeightExit(m_regions, last'.draw[1]) # 0
          /\ selectElementByWeightExit(m_regions, totalWeight - 1) # 0]_vars

C26_Witness ==
    /\ last.op = "select"
    /\ size(m_regions) >= 2
    /\ last.draw = <<calculateTotalWeight(m_regions) - 1>>
    /\ selectElementByWeightExit(m_regions, last.draw[1]) = size(m_regions)
    /\ last.ret = <<getElement(m_regions[size(m_regions)])>>

\* the regions of the other elements, in storage order
RECURSIVE WithoutElement(_, _)
WithoutElement(regions, element) ==
    IF regions = <<>> THEN <<>>
    ELSE IF getElement(Head(regions)) = element
         THEN WithoutElement(Tail(regions), element)
         ELSE <<Head(regions)>> \o WithoutElement(Tail(regions), element)

\* C28: selectAndModifyWeight(delta) and selectAndRemove() change only the
\* region of the element they return: the regions of all other elements keep
\* their element, their weight and their relative position.
C28_OnlyReturnedRegionChanges ==
    [][(last'.op \in {"selectAndModifyWeight", "selectAndRemove"}
          /\ last'.err = NoError) =>
          /\ last'.ret[1] \in ElementsOf(m_regions)
          /\ WithoutElement(m_regions', last'.ret[1])
                = WithoutElement(m_regions, last'.ret[1])
          /\ Len(WithoutElement(m_regions, last'.ret[1])) = size(m_regions) - 1]_vars

C28_Witness ==
    /\ last.op = "selectAndModifyWeight"
    /\ last.err = NoError
    /\ size(m_regions) = 3
    /\ last.ret = <<getElement(m_regions[2])>>

\* C29: seedRandom(s) resets the random source completely, and addRegion,
\* removeElement and removeInvalidRegions never advance it: after
\* seedRandom(s) the results of select() depend only on s and on the regions
\* held at each call, not on earlier draws nor on whether the regions were
\* added before or after the seeding.
C29_SeedingForgetsTheHistory ==
    /\ [][last'.op \in {"addRegion", "removeElement", "removeInvalidRegions"} =>
              m_randomEngine' = m_randomEngine]_vars
    /\ [][last'.op = "seedRandom" =>
              m_randomEngine' = EngineSeed(last'.args[1])]_vars
    /\ [](twin # NoTwin => m_randomEngine = twin.m_randomEngine)
    /\ []((twin # NoTwin /\ last.op = "select") => last.ret = twin.ret)

C29_Witness ==
    /\ twin # NoTwin
    /\ m_randomEngine = EngineAdvance(EngineAdvance(EngineSeed(twin.seeds[1])))
    /\ last.op = "select"
    /\ last.draw # <<>>
    /\ last.ret = twin.ret
    /\ size(m_regions) = 3

\* C30: with W a fixed-width signed integer, after any sequence of
\* addRegion calls with positive weights and selectAndModifyWeight calls
\* with positive deltas no addition has overflowed: every stored weight is
\* strictly positive and is the exact sum of what its element was given, and
\* the total weight select() computed is the exact, strictly positive sum of
\* the stored weights.
C30_AccumulationNeverWraps ==
    /\ last.err # SignedOverflow
    /\ \A k \in 1..Len(m_regions) :
          /\ getWeight(m_regions[k]) > 0
          /\ getWeight(m_regions[k]) = run.exact[getElement(m_regions[k])]
    /\ (last.op = "selectAndModifyWeight" /\ size(run.start) >= 2) =>
          /\ run.total = SumOfWeights(run.start)
          /\ run.total > 0

\* as long as the sums stay within the width of W the weights are exact
ExactWithinWidth ==
    (\A element \in Elements : run.exact[element] <= WMax
       /\ SumOfWeights(run.start) <= WMax) =>
       C30_AccumulationNeverWraps

====
